---- MODULE Spec2Model ----
(***************************************************************************)
(* Value encoding of risingwave (src/common/src/util/value_encoding):      *)
(* serialize_cell / deserialize_cell and their per-type routines,          *)
(* modelled at the level of bytes.                                         *)
(*                                                                         *)
(* Representation of machine numbers.  TLC's integers are 32 bits wide,    *)
(* so i16 and i32 are TLA+ integers, and the wider words are little-endian *)
(* sequences of 16-bit limbs: a u32 is <<l0, l1>>, a u64 and an i64 are    *)
(* <<l0, l1, l2, l3>> with value l0 + l1*2^16 + l2*2^32 + l3*2^48, every   *)
(* limb in 0..65535 except the top limb of an i64, in -32768..32767.       *)
(*                                                                         *)
(* A cursor (impl Buf) is the sequence of the bytes that remain.  A call   *)
(* returns a record [kind, val, rest]: kind "ok" with the value and the    *)
(* cursor left, kind "err" with the error (Result::Err), or kind "panic"   *)
(* when the Rust code panics (the thread unwinds, no value is returned).   *)
(***************************************************************************)
EXTENDS Integers, Sequences, FiniteSets, TLC

\* cell: the Datum a caller encodes;  ty: the DataType a caller decodes with;
\* enc: the result of serialize_cell(cell);  data: the cursor handed to
\* deserialize_cell, which is enc's bytes with cut bytes taken off the end,
\* or with the bytes of extra put after them, or with the byte at index flip
\* overwritten;  dec: the result of deserialize_cell(data, ty);  pc: the
\* caller's position.
VARIABLES cell, ty, data, enc, dec, pc, extra, cut, flip

codecVars == <<cell, ty, data, enc, dec, pc, extra, cut, flip>>

\* payload_len: the length (a usize, as limbs) of the bytes of a text value
\* or of a struct's embedded message that a caller encodes;  payload_of:
\* which of the two it is;  written: the length prefix and the length of the
\* buffer that serialize_value wrote for it.
VARIABLES payload_len, payload_of, written

lenVars == <<payload_len, payload_of, written>>

\* core: UserManager.core, the users by name;  store: the users the meta store
\* holds;  ret: the call that returned last and its Result;  live: the names
\* UserManager::new found in the store or create_user returned Ok for, and
\* drop_user has not returned Ok for since;
\* granted: how many grant_privilege calls have returned Ok.
VARIABLES core, store, ret, live, granted

userVars == <<core, store, ret, live, granted>>

vars == <<codecVars, lenVars, userVars>>

\* ------------------------------------------------------------------ bounds

\* Bytes a test appends after an encoding (the k extra bytes of a cursor).
MaxExtra == 2

\* The grant_privilege calls that return Ok in one run.
MaxGrants == 2

\* ------------------------------------------------------------ call results

Ok(v, rest) == [kind |-> "ok", val |-> v, rest |-> rest]

Err(e) == [kind |-> "err", val |-> e, rest |-> <<>>]

Panic(msg) == [kind |-> "panic", val |-> <<"Panic", msg>>, rest |-> <<>>]

\* A scalar (ScalarImpl, ScalarRefImpl) is the pair of its variant and its
\* payload, a Datum is a scalar or None.
Scalar(tag, v) == <<tag, v>>

Tag(x) == x[1]

Val(x) == x[2]

\* Option::None of a Datum.
None == <<"None", 0>>

NoCall == [kind |-> "none", val |-> None, rest |-> <<>>]

\* ------------------------------------------------------------- byte helpers

Take(s, n) == SubSeq(s, 1, n)

Drop(s, n) == SubSeq(s, n + 1, Len(s))

\* The two bytes of a 16-bit limb, low byte first (floor division, so a
\* negative top limb yields its two's-complement bytes).
LimbBytes(l) == <<l % 256, (l \div 256) % 256>>

\* The unsigned 16-bit limb two bytes hold.
LimbOf(b0, b1) == b0 + 256 * b1

\* The signed reading of a 16-bit limb.
SignedLimb(l) == IF l >= 32768 THEN l - 65536 ELSE l

\* ------------------------------------------------------- BufMut::put_*_le

put_u8(v) == <<v>>

put_i16_le(v) == LimbBytes(v)

\* put_i32_le as it would be with the bytes written most significant first.
put_i32_be(v) == <<(v \div 16777216) % 256, (v \div 65536) % 256, (v \div 256) % 256, v % 256>>

put_i32_le(v) == <<v % 256, (v \div 256) % 256, (v \div 65536) % 256, (v \div 16777216) % 256>>

put_u32_le(w) == LimbBytes(w[1]) \o LimbBytes(w[2])

put_i64_le(w) == LimbBytes(w[1]) \o LimbBytes(w[2]) \o LimbBytes(w[3]) \o LimbBytes(w[4])

\* f32 and f64 are written as their IEEE-754 bit patterns (to_bits).
put_f32_le(bits) == put_u32_le(bits)

put_f64_le(bits) == put_i64_le(bits)

put_slice(bytes) == bytes

\* ----------------------------------------------------------- Buf::get_*_le
\* bytes::Buf asserts remaining() >= size and panics otherwise.

get_u8(d) ==
    IF Len(d) < 1 THEN Panic("get_u8")
    ELSE Ok(d[1], Drop(d, 1))

get_i16_le(d) ==
    IF Len(d) < 2 THEN Panic("get_i16_le")
    ELSE Ok(SignedLimb(LimbOf(d[1], d[2])), Drop(d, 2))

get_i32_le(d) ==
    IF Len(d) < 4 THEN Panic("get_i32_le")
    ELSE Ok(d[1] + 256 * d[2] + 65536 * d[3]
            + 16777216 * (IF d[4] >= 128 THEN d[4] - 256 ELSE d[4]), Drop(d, 4))

get_u32_le(d) ==
    IF Len(d) < 4 THEN Panic("get_u32_le")
    ELSE Ok(<<LimbOf(d[1], d[2]), LimbOf(d[3], d[4])>>, Drop(d, 4))

get_i64_le(d) ==
    IF Len(d) < 8 THEN Panic("get_i64_le")
    ELSE Ok(<<LimbOf(d[1], d[2]), LimbOf(d[3], d[4]), LimbOf(d[5], d[6]),
              SignedLimb(LimbOf(d[7], d[8]))>>, Drop(d, 8))

get_f32_le(d) ==
    IF Len(d) < 4 THEN Panic("get_f32_le")
    ELSE Ok(<<LimbOf(d[1], d[2]), LimbOf(d[3], d[4])>>, Drop(d, 4))

get_f64_le(d) ==
    IF Len(d) < 8 THEN Panic("get_f64_le")
    ELSE Ok(<<LimbOf(d[1], d[2]), LimbOf(d[3], d[4]), LimbOf(d[5], d[6]),
              LimbOf(d[7], d[8])>>, Drop(d, 8))

\* copy_to_slice(&mut [u8; n]): panics when fewer than n bytes remain.
copy_to_slice(d, n) ==
    IF Len(d) < n THEN Panic("copy_to_slice")
    ELSE Ok(Take(d, n), Drop(d, n))

\* A u32 against a number n that fits a TLA+ integer.
U32Le(w, n) == w[2] < 32768 /\ w[2] * 65536 + w[1] <= n

\* `len as usize` of a u32 that is at most n.
U32ToNat(w) == w[2] * 65536 + w[1]

\* A length that fits a TLA+ integer, as a usize (64 bits wide).
Usize(n) == <<n % 65536, (n \div 65536) % 65536, 0, 0>>

\* `bytes.len() as u32`: the cast keeps the low 32 bits of the usize.
len_as_u32(n) == <<n[1], n[2]>>

\* `bytes.len() as u32` of a length that fits a TLA+ integer.
NatToU32(n) == len_as_u32(Usize(n))

\* --------------------------------------------- prost (protobuf wire format)
\* ProstStructValue is a message with one field, `repeated bytes body = 1`.

RECURSIVE encode_varint(_)
encode_varint(n) ==
    IF n < 128 THEN <<n>> ELSE <<(n % 128) + 128>> \o encode_varint(n \div 128)

\* Message::encode_to_vec: every element of body is written as the key byte
\* 0x0A (field 1, wire type 2), its length as a varint, and its bytes.
RECURSIVE encode_to_vec(_)
encode_to_vec(body) ==
    IF body = <<>> THEN <<>>
    ELSE <<10>> \o encode_varint(Len(body[1])) \o body[1] \o encode_to_vec(Tail(body))

\* ------------------------------------------------------------- serialize

RECURSIVE serialize_value(_)

\* serialize_cell: the empty buffer for None, else the value's bytes.
serialize_cell(c) ==
    IF c = None THEN Ok(<<>>, <<>>) ELSE serialize_value(c)

\* The field sub-blobs of a struct value: each field's value encoding, empty
\* for an absent field.  A panic in a field is the panic of the whole call.
RECURSIVE struct_body(_)
struct_body(fields) ==
    IF fields = <<>> THEN Ok(<<>>, <<>>)
    ELSE LET h == serialize_cell(fields[1])
             t == struct_body(Tail(fields))
         IN  IF h.kind # "ok" THEN h
             ELSE IF t.kind # "ok" THEN t
             ELSE Ok(<<h.val>> \o t.val, <<>>)

\* StructValue::to_protobuf_owned: the ProstStructValue of the sub-blobs.
to_protobuf_owned(fields) ==
    LET b == struct_body(fields)
    IN  IF b.kind # "ok" THEN b ELSE Ok(encode_to_vec(b.val), <<>>)

\* serialize_str as it would be if an empty string wrote nothing.
serialize_str_skip_empty(bytes) ==
    IF bytes = <<>> THEN <<>> ELSE put_u32_le(NatToU32(Len(bytes))) \o put_slice(bytes)

serialize_str(bytes) == put_u32_le(NatToU32(Len(bytes))) \o put_slice(bytes)

serialize_interval(v) == put_i32_le(v[1]) \o put_i32_le(v[2]) \o put_i64_le(v[3])

serialize_naivedate(days) == put_i32_le(days)

serialize_naivedatetime(secs, nsecs) == put_i64_le(secs) \o put_u32_le(nsecs)

serialize_naivetime(secs, nano) == put_u32_le(secs) \o put_u32_le(nano)

\* Decimal::unordered_serialize: the four 32-bit words of the decimal
\* (flags, lo, mid, hi), 16 bytes.
unordered_serialize(v) ==
    put_u32_le(v[1]) \o put_u32_le(v[2]) \o put_u32_le(v[3]) \o put_u32_le(v[4])

serialize_decimal(v) == put_slice(unordered_serialize(v))

serialize_bool(v) == put_u8(IF v THEN 1 ELSE 0)

serialize_struct(val) ==
    LET bytes == to_protobuf_owned(val)
    IN  IF bytes.kind # "ok" THEN bytes
        ELSE Ok(put_u32_le(NatToU32(Len(bytes.val))) \o put_slice(bytes.val), <<>>)

serialize_value(value) ==
    CASE Tag(value) = "Int16" -> Ok(put_i16_le(Val(value)), <<>>)
      [] Tag(value) = "Int32" -> Ok(put_i32_le(Val(value)), <<>>)
      [] Tag(value) = "Int64" -> Ok(put_i64_le(Val(value)), <<>>)
      [] Tag(value) = "Float32" -> Ok(put_f32_le(Val(value)), <<>>)
      [] Tag(value) = "Float64" -> Ok(put_f64_le(Val(value)), <<>>)
      [] Tag(value) = "Utf8" -> Ok(serialize_str(Val(value)), <<>>)
      [] Tag(value) = "Bool" -> Ok(serialize_bool(Val(value)), <<>>)
      [] Tag(value) = "Decimal" -> Ok(serialize_decimal(Val(value)), <<>>)
      [] Tag(value) = "Interval" -> Ok(serialize_interval(Val(value)), <<>>)
      [] Tag(value) = "NaiveDate" -> Ok(serialize_naivedate(Val(value)), <<>>)
      [] Tag(value) = "NaiveDateTime" ->
            Ok(serialize_naivedatetime(Val(value)[1], Val(value)[2]), <<>>)
      [] Tag(value) = "NaiveTime" ->
            Ok(serialize_naivetime(Val(value)[1], Val(value)[2]), <<>>)
      [] Tag(value) = "Struct" -> serialize_struct(Val(value))
      [] OTHER -> Panic("Type is unable to be serialized.")

\* ------------------------------------------------------- prost: decoding
\* A decoded varint is kept as its little-endian 7-bit groups.

\* decode_varint: up to 10 bytes, the last one below 128; "invalid varint"
\* when the bytes end first or the tenth byte exceeds 1.
RECURSIVE varint_groups(_, _)
varint_groups(d, n) ==
    IF d = <<>> THEN Err("invalid varint")
    ELSE IF d[1] < 128
         THEN IF n = 10 /\ d[1] > 1 THEN Err("invalid varint")
              ELSE Ok(<<d[1]>>, Tail(d))
    ELSE IF n = 10 THEN Err("invalid varint")
    ELSE LET t == varint_groups(Tail(d), n + 1)
         IN  IF t.kind # "ok" THEN t ELSE Ok(<<d[1] - 128>> \o t.val, t.rest)

decode_varint(d) == varint_groups(d, 1)

Group(g, i) == IF i <= Len(g) THEN g[i] ELSE 0

\* The low 28 bits of a varint.
Low28(g) == Group(g, 1) + 128 * Group(g, 2) + 16384 * Group(g, 3) + 2097152 * Group(g, 4)

\* The varint is below 2^28.
Below28(g) == \A i \in 5..Len(g) : g[i] = 0

\* The varint is at most u32::MAX.
FitsU32(g) == Group(g, 5) < 16 /\ \A i \in 6..Len(g) : g[i] = 0

\* `len > buf.remaining()` for a varint len.
LenExceeds(g, remaining) == ~Below28(g) \/ Low28(g) > remaining

\* decode_key: [wire, tag] of a field key.
decode_key(d) ==
    LET k == decode_varint(d)
    IN  IF k.kind # "ok" THEN k
        ELSE IF ~FitsU32(k.val) THEN Err("invalid key value")
        ELSE IF k.val[1] % 8 > 5 THEN Err("invalid wire type value")
        ELSE IF Low28(k.val) \div 8 = 0 /\ Group(k.val, 5) = 0 THEN Err("invalid tag value: 0")
        ELSE Ok([wire |-> k.val[1] % 8,
                 tag |-> (Low28(k.val) \div 8) + 33554432 * Group(k.val, 5)], k.rest)

\* Buf::advance after the "buffer underflow" check.
advance(d, n) == IF n > Len(d) THEN Err("buffer underflow") ELSE Ok(<<>>, Drop(d, n))

\* skip_field: the bytes of a field the message does not declare.
RECURSIVE skip_field(_, _, _)
RECURSIVE skip_group(_, _)
skip_group(tag, d) ==
    LET k == decode_key(d)
    IN  IF k.kind # "ok" THEN k
        ELSE IF k.val.wire = 4
             THEN IF k.val.tag # tag THEN Err("unexpected end group tag")
                  ELSE Ok(<<>>, k.rest)
        ELSE LET s == skip_field(k.val.wire, k.val.tag, k.rest)
             IN  IF s.kind # "ok" THEN s ELSE skip_group(tag, s.rest)

skip_field(wire, tag, d) ==
    CASE wire = 0 -> LET v == decode_varint(d)
                     IN  IF v.kind # "ok" THEN v ELSE Ok(<<>>, v.rest)
      [] wire = 1 -> advance(d, 8)
      [] wire = 2 -> LET l == decode_varint(d)
                     IN  IF l.kind # "ok" THEN l
                         ELSE IF LenExceeds(l.val, Len(l.rest)) THEN Err("buffer underflow")
                         ELSE advance(l.rest, Low28(l.val))
      [] wire = 3 -> skip_group(tag, d)
      [] wire = 4 -> Err("unexpected end group tag")
      [] wire = 5 -> advance(d, 4)

\* Message::decode of a ProstStructValue: the sub-blobs of field 1 in the
\* order they appear; any other field is skipped.
RECURSIVE Message_decode(_)
Message_decode(d) ==
    IF d = <<>> THEN Ok(<<>>, <<>>)
    ELSE LET k == decode_key(d)
         IN  IF k.kind # "ok" THEN k
             ELSE IF k.val.tag = 1
                  THEN IF k.val.wire # 2 THEN Err("invalid wire type")
                       ELSE LET l == decode_varint(k.rest)
                            IN  IF l.kind # "ok" THEN l
                                ELSE IF LenExceeds(l.val, Len(l.rest))
                                     THEN Err("buffer underflow")
                                ELSE LET n == Low28(l.val)
                                         t == Message_decode(Drop(l.rest, n))
                                     IN  IF t.kind # "ok" THEN t
                                         ELSE Ok(<<Take(l.rest, n)>> \o t.val, <<>>)
             ELSE LET s == skip_field(k.val.wire, k.val.tag, k.rest)
                  IN  IF s.kind # "ok" THEN s ELSE Message_decode(s.rest)

\* ------------------------------------------------------------ error values

ValueEncodingError(name, v) == <<name, v>>

\* ------------------------------------------------- String::from_utf8

Cont(b) == b >= 128 /\ b <= 191

RECURSIVE IsUtf8(_)
IsUtf8(b) ==
    IF b = <<>> THEN TRUE
    ELSE IF b[1] < 128 THEN IsUtf8(Tail(b))
    ELSE IF b[1] >= 194 /\ b[1] <= 223
         THEN Len(b) >= 2 /\ Cont(b[2]) /\ IsUtf8(Drop(b, 2))
    ELSE IF b[1] >= 224 /\ b[1] <= 239
         THEN /\ Len(b) >= 3
              /\ Cont(b[2]) /\ Cont(b[3])
              /\ (b[1] = 224 => b[2] >= 160)
              /\ (b[1] = 237 => b[2] <= 159)
              /\ IsUtf8(Drop(b, 3))
    ELSE IF b[1] >= 240 /\ b[1] <= 244
         THEN /\ Len(b) >= 4
              /\ Cont(b[2]) /\ Cont(b[3]) /\ Cont(b[4])
              /\ (b[1] = 240 => b[2] >= 144)
              /\ (b[1] = 244 => b[2] <= 143)
              /\ IsUtf8(Drop(b, 4))
    ELSE FALSE

\* --------------------------------------- reconstruction of temporal values

\* NaiveDateWrapper::new_with_days_value_encoding: the date of a day count,
\* rejected outside the range of dates (years -262144..262143).
new_with_days_value_encoding(days) ==
    IF days >= -95746495 /\ days <= 95745764
    THEN Ok(days, <<>>)
    ELSE Err(ValueEncodingError("InvalidNaiveDateEncoding", days))

\* NaiveTimeWrapper::new_with_secs_nano_value_encoding: rejected unless
\* secs < 86400 and nano < 2 * 10^9.
new_with_secs_nano_value_encoding(secs, nano) ==
    IF U32Le(secs, 86399) /\ U32Le(nano, 1999999999)
    THEN Ok(<<secs, nano>>, <<>>)
    ELSE Err(ValueEncodingError("InvalidNaiveTimeEncoding", <<secs, nano>>))

\* NaiveDateTimeWrapper::new_with_secs_nsecs_value_encoding: rejected unless
\* the day of secs is a date and nsecs < 2 * 10^9 (the range of secs is taken
\* to the granularity of 2^32 seconds).
new_with_secs_nsecs_value_encoding(secs, nsecs) ==
    IF /\ \/ secs[4] = 0 /\ secs[3] < 1911
          \/ secs[4] = -1 /\ secs[3] > 63624
       /\ U32Le(nsecs, 1999999999)
    THEN Ok(<<secs, nsecs>>, <<>>)
    ELSE Err(ValueEncodingError("InvalidNaiveDateTimeEncoding", <<secs, nsecs>>))

\* Decimal::unordered_deserialize: the four words of 16 bytes.
unordered_deserialize(b) ==
    <<get_u32_le(SubSeq(b, 1, 4)).val, get_u32_le(SubSeq(b, 5, 8)).val,
      get_u32_le(SubSeq(b, 9, 12)).val, get_u32_le(SubSeq(b, 13, 16)).val>>

\* ------------------------------------------------------------ deserialize

\* deserialize_str as it would be if the payload were read without advancing
\* the cursor past it.
deserialize_str_peek(d) ==
    LET len == get_u32_le(d)
    IN  IF len.kind # "ok" THEN len
        ELSE IF ~U32Le(len.val, Len(len.rest)) THEN Panic("copy_to_slice")
        ELSE LET bytes == Take(len.rest, U32ToNat(len.val))
             IN  IF IsUtf8(bytes) THEN Ok(bytes, len.rest)
                 ELSE Err(ValueEncodingError("InvalidUtf8", bytes))

\* deserialize_str as it would be with String::from_utf8_unchecked: the bytes
\* are taken for a string whatever they are.
deserialize_str_unchecked(d) ==
    LET len == get_u32_le(d)
    IN  IF len.kind # "ok" THEN len
        ELSE IF ~U32Le(len.val, Len(len.rest)) THEN Panic("copy_to_slice")
        ELSE copy_to_slice(len.rest, U32ToNat(len.val))

\* deserialize_str: vec![0; len] is filled by copy_to_slice, which panics when
\* fewer than len bytes remain (for a len the allocator refuses, the process
\* aborts before that: a crash either way, never an Err).
deserialize_str(d) ==
    LET len == get_u32_le(d)
    IN  IF len.kind # "ok" THEN len
        ELSE IF ~U32Le(len.val, Len(len.rest)) THEN Panic("copy_to_slice")
        ELSE LET bytes == copy_to_slice(len.rest, U32ToNat(len.val))
             IN  IF IsUtf8(bytes.val) THEN bytes
                 ELSE Err(ValueEncodingError("InvalidUtf8", bytes.val))

\* deserialize_bool as it would be if every non-zero byte were true.
deserialize_bool_nonzero(d) ==
    LET b == get_u8(d)
    IN  IF b.kind # "ok" THEN b
        ELSE IF b.val = 0 THEN Ok(FALSE, b.rest)
        ELSE Ok(TRUE, b.rest)

deserialize_bool(d) ==
    LET b == get_u8(d)
    IN  IF b.kind # "ok" THEN b
        ELSE IF b.val = 1 THEN Ok(TRUE, b.rest)
        ELSE IF b.val = 0 THEN Ok(FALSE, b.rest)
        ELSE Err(ValueEncodingError("InvalidBoolEncoding", b.val))

deserialize_interval(d) ==
    LET months == get_i32_le(d)
    IN  IF months.kind # "ok" THEN months
        ELSE LET days == get_i32_le(months.rest)
             IN  IF days.kind # "ok" THEN days
                 ELSE LET ms == get_i64_le(days.rest)
                      IN  IF ms.kind # "ok" THEN ms
                          ELSE Ok(<<months.val, days.val, ms.val>>, ms.rest)

deserialize_naivetime(d) ==
    LET secs == get_u32_le(d)
    IN  IF secs.kind # "ok" THEN secs
        ELSE LET nano == get_u32_le(secs.rest)
             IN  IF nano.kind # "ok" THEN nano
                 ELSE LET t == new_with_secs_nano_value_encoding(secs.val, nano.val)
                      IN  IF t.kind # "ok" THEN t ELSE Ok(t.val, nano.rest)

deserialize_naivedatetime(d) ==
    LET secs == get_i64_le(d)
    IN  IF secs.kind # "ok" THEN secs
        ELSE LET nsecs == get_u32_le(secs.rest)
             IN  IF nsecs.kind # "ok" THEN nsecs
                 ELSE LET t == new_with_secs_nsecs_value_encoding(secs.val, nsecs.val)
                      IN  IF t.kind # "ok" THEN t ELSE Ok(t.val, nsecs.rest)

deserialize_naivedate(d) ==
    LET days == get_i32_le(d)
    IN  IF days.kind # "ok" THEN days
        ELSE LET t == new_with_days_value_encoding(days.val)
             IN  IF t.kind # "ok" THEN t ELSE Ok(t.val, days.rest)

deserialize_decimal(d) ==
    LET bytes == copy_to_slice(d, 16)
    IN  IF bytes.kind # "ok" THEN bytes
        ELSE Ok(unordered_deserialize(bytes.val), bytes.rest)

DataType(tag, fields) == [tag |-> tag, fields |-> fields]

RECURSIVE deserialize_value(_, _)

\* .zip_eq(data_type).map(deserialize_value).collect::<Result<Vec<_>>>():
\* the pairs are taken one at a time; the first Err ends the collection, and
\* zip_eq panics when one side ends before the other.
RECURSIVE zip_eq_collect(_, _)
zip_eq_collect(body, data_type) ==
    IF body = <<>> /\ data_type = <<>> THEN Ok(<<>>, <<>>)
    ELSE IF body = <<>> \/ data_type = <<>>
         THEN Panic("itertools: .zip_eq() reached end of one iterator before the other")
    ELSE LET h == deserialize_value(data_type[1], body[1])
         IN  IF h.kind # "ok" THEN h
             ELSE LET t == zip_eq_collect(Tail(body), Tail(data_type))
                  IN  IF t.kind # "ok" THEN t ELSE Ok(<<h.val>> \o t.val, <<>>)

deserialize_struct(data_type, d) ==
    LET len == get_u32_le(d)
    IN  IF len.kind # "ok" THEN len
        ELSE IF ~U32Le(len.val, Len(len.rest)) THEN Panic("copy_to_slice")
        ELSE LET bytes == copy_to_slice(len.rest, U32ToNat(len.val))
                 struct_value == Message_decode(bytes.val)
             IN  IF struct_value.kind # "ok"
                 THEN Err(ValueEncodingError("DecodeError", struct_value.val))
                 ELSE LET fields == zip_eq_collect(struct_value.val, data_type)
                      IN  IF fields.kind # "ok" THEN fields
                          ELSE Ok(fields.val, bytes.rest)

\* The value of a successful per-type routine as a scalar of the given tag.
Wrap(tag, r) == IF r.kind # "ok" THEN r ELSE Ok(Scalar(tag, r.val), r.rest)

deserialize_value(t, d) ==
    CASE t.tag = "Int16" -> Wrap("Int16", get_i16_le(d))
      [] t.tag = "Int32" -> Wrap("Int32", get_i32_le(d))
      [] t.tag = "Int64" -> Wrap("Int64", get_i64_le(d))
      [] t.tag = "Float32" -> Wrap("Float32", get_f32_le(d))
      [] t.tag = "Float64" -> Wrap("Float64", get_f64_le(d))
      [] t.tag = "Varchar" -> Wrap("Utf8", deserialize_str(d))
      [] t.tag = "Boolean" -> Wrap("Bool", deserialize_bool(d))
      [] t.tag = "Decimal" -> Wrap("Decimal", deserialize_decimal(d))
      [] t.tag = "Interval" -> Wrap("Interval", deserialize_interval(d))
      [] t.tag = "Time" -> Wrap("NaiveTime", deserialize_naivetime(d))
      [] t.tag = "Timestamp" -> Wrap("NaiveDateTime", deserialize_naivedatetime(d))
      [] t.tag = "Timestampz" -> Wrap("Int64", get_i64_le(d))
      [] t.tag = "Date" -> Wrap("NaiveDate", deserialize_naivedate(d))
      [] t.tag = "Struct" -> Wrap("Struct", deserialize_struct(t.fields, d))
      [] OTHER -> Panic("Type is unable to be deserialized.")

\* deserialize_cell as it would be without the check for an empty cursor.
deserialize_cell_unchecked(d, t) == deserialize_value(t, d)

\* deserialize_cell: None for a cursor with nothing left, else the value.
deserialize_cell(d, t) ==
    IF Len(d) < 1 THEN Ok(None, d) ELSE deserialize_value(t, d)

\* ------------------------------------------------------------------ inputs

Zero64 == <<0, 0, 0, 0>>

Zero32 == <<0, 0>>

\* i64::MIN, i64::MAX and -1 as limbs.
MinI64 == <<0, 0, 0, -32768>>

MaxI64 == <<65535, 65535, 65535, 32767>>

MinusOne64 == <<65535, 65535, 65535, -1>>

Int16Values == {0, 1, -1, 258, 32767, -32768}

Int32Values == {0, 42, -1, 7, 2147483647, -2147483647 - 1}

Int64Values == {Zero64, <<42, 0, 0, 0>>, MinusOne64, MinI64, MaxI64, <<1, 2, 3, 4>>}

\* 0.0, 1.0, -0.0 and a NaN as f32 bits.
Float32Values == {Zero32, <<0, 16256>>, <<0, 32768>>, <<0, 32704>>}

\* 0.0, 1.0 and a NaN as f64 bits.
Float64Values == {Zero64, <<0, 0, 0, 16368>>, <<0, 0, 0, 32760>>}

\* "", "ab", "x", "\u{e9}" and "\0" as their UTF-8 bytes.
Utf8Values == {<<>>, <<97, 98>>, <<120>>, <<195, 169>>, <<0>>}

\* 0, 1.5 and -1.5 as <<flags, lo, mid, hi>>.
DecimalValues ==
    {<<Zero32, Zero32, Zero32, Zero32>>, <<<<0, 1>>, <<15, 0>>, Zero32, Zero32>>,
     <<<<0, 32769>>, <<15, 0>>, Zero32, Zero32>>}

IntervalValues == {<<0, 0, Zero64>>, <<1, -2, <<3, 0, 0, 0>>>>, <<-1, 30, MinusOne64>>}

\* 0001-01-01 and 1970-01-01 as days from the common era.
NaiveDateValues == {1, 719163}

\* 00:00:00 and 23:59:59.999999999.
NaiveTimeValues == {<<Zero32, Zero32>>, <<<<20863, 1>>, <<51711, 15258>>>>}

\* 1970-01-01 00:00:00 and 1969-12-31 23:59:59.000000001.
NaiveDateTimeValues == {<<Zero64, Zero32>>, <<MinusOne64, <<1, 0>>>>}

I32(v) == Scalar("Int32", v)

Str(v) == Scalar("Utf8", v)

StructValues ==
    {<<>>, <<I32(7)>>, <<I32(7), Str(<<120>>)>>, <<I32(7), None>>, <<None>>,
     <<None, Str(<<97, 98>>)>>, <<Scalar("Bool", TRUE)>>,
     <<I32(7), Str(<<120>>), Scalar("Bool", FALSE)>>,
     <<Scalar("Struct", <<I32(-1)>>)>>, <<Scalar("Int16", 1), Scalar("Int64", MinI64)>>}

Scalars ==
    {Scalar("Int16", v) : v \in Int16Values}
    \cup {Scalar("Int32", v) : v \in Int32Values}
    \cup {Scalar("Int64", v) : v \in Int64Values}
    \cup {Scalar("Float32", v) : v \in Float32Values}
    \cup {Scalar("Float64", v) : v \in Float64Values}
    \cup {Scalar("Utf8", v) : v \in Utf8Values}
    \cup {Scalar("Bool", v) : v \in BOOLEAN}
    \cup {Scalar("Decimal", v) : v \in DecimalValues}
    \cup {Scalar("Interval", v) : v \in IntervalValues}
    \cup {Scalar("NaiveDate", v) : v \in NaiveDateValues}
    \cup {Scalar("NaiveDateTime", v) : v \in NaiveDateTimeValues}
    \cup {Scalar("NaiveTime", v) : v \in NaiveTimeValues}
    \cup {Scalar("Struct", v) : v \in StructValues}
    \cup {Scalar("List", <<>>)}

Datums == {None} \cup Scalars

PlainTags ==
    {"Int16", "Int32", "Int64", "Float32", "Float64", "Varchar", "Boolean", "Decimal",
     "Interval", "Time", "Timestamp", "Timestampz", "Date", "List"}

T(tag) == DataType(tag, <<>>)

StructTypes ==
    {<<>>, <<T("Int32")>>, <<T("Int32"), T("Varchar")>>, <<T("Int32"), T("Int32")>>,
     <<T("Boolean")>>, <<T("Varchar"), T("Varchar")>>,
     <<T("Int32"), T("Varchar"), T("Boolean")>>,
     <<DataType("Struct", <<T("Int32")>>)>>, <<T("Int16"), T("Int64")>>}

DataTypes == {T(tag) : tag \in PlainTags} \cup {DataType("Struct", f) : f \in StructTypes}

\* The bytes a test puts after an encoding or writes over one of its bytes.
EditBytes == {0, 1, 2, 3, 10, 97, 128, 255}

\* ------------------------------------------------------------ idle states

\* No payload is being measured.
LenIdle ==
    /\ payload_len = Usize(0)
    /\ payload_of = "none"
    /\ written = [prefix |-> <<>>, len |-> Usize(0)]

\* No cell is being encoded or decoded.
CodecIdle ==
    /\ cell = None
    /\ ty = T("Int32")
    /\ data = <<>>
    /\ enc = NoCall
    /\ dec = NoCall
    /\ pc = "idle"
    /\ extra = <<>>
    /\ cut = 0
    /\ flip = 0

\* ------------------------------------------------------------ UserManager

DEFAULT_SUPPER_USER == "root"

PrivilegeWithGrantOption(privilege, with_grant_option) ==
    [privilege |-> privilege, with_grant_option |-> with_grant_option]

\* A GrantPrivilege whose target is Some(target).
GrantPrivilege(target, privilege_with_opts) ==
    [target |-> target, privilege_with_opts |-> privilege_with_opts]

\* The fields of UserInfo the manager reads; the others are carried along.
UserInfo(name, is_supper, grant_privileges) ==
    [name |-> name, is_supper |-> is_supper, grant_privileges |-> grant_privileges]

make_test_user(name) == UserInfo(name, FALSE, <<>>)

\* A call's Result and the users in memory and in the store after it.
Outcome(kind, c, s) == [kind |-> kind, core |-> c, store |-> s]

\* HashMap::insert on core: the entry of the user's name is the user.
core_insert(c, user) ==
    [n \in DOMAIN c \cup {user.name} |-> IF n = user.name THEN user ELSE c[n]]

\* HashMap::remove on core.
core_remove(c, user_name) == [n \in DOMAIN c \ {user_name} |-> c[n]]

\* UserInfo::insert on the meta store, when the write succeeds.
insert(s, user) ==
    [n \in DOMAIN s \cup {user.name} |-> IF n = user.name THEN user ELSE s[n]]

\* UserInfo::delete on the meta store, when the write succeeds.
delete(s, user_name) == [n \in DOMAIN s \ {user_name} |-> s[n]]

\* The state UserManager::new leaves on an empty store: init has written the
\* default super user to the store and to core.
default_user == UserInfo(DEFAULT_SUPPER_USER, TRUE, <<>>)

new_core == core_insert(<<>>, default_user)

new_store == insert(<<>>, default_user)

\* init: the default super user is written to the store and then to core
\* unless core has the name; io: the store's write succeeds.
init(c, s, io) ==
    IF DEFAULT_SUPPER_USER \in DOMAIN c THEN Outcome("ok", c, s)
    ELSE IF ~io THEN Outcome("err", c, s)
    ELSE Outcome("ok", core_insert(c, default_user), insert(s, default_user))

\* UserManager::new: core is the users UserInfo::list reads from the store,
\* by name, and then init.
new(s, io) == init([n \in DOMAIN s |-> s[n]], s, io)

\* list_users: the values of core.
list_users(c) == {c[n] : n \in DOMAIN c}

\* create_user as it would be without the contains_key check.
create_user_overwrite(c, s, user, io) ==
    IF ~io THEN Outcome("err", c, s)
    ELSE Outcome("ok", core_insert(c, user), insert(s, user))

\* create_user; io: the store's write succeeds.
create_user(c, s, user, io) ==
    IF user.name \in DOMAIN c THEN Outcome("err", c, s)
    ELSE IF ~io THEN Outcome("err", c, s)
    ELSE Outcome("ok", core_insert(c, user), insert(s, user))

\* drop_user as it would be without the check for the default super user.
drop_user_any(c, s, user_name, io) ==
    IF user_name \notin DOMAIN c THEN Outcome("err", c, s)
    ELSE IF c[user_name].grant_privileges # <<>> THEN Outcome("err", c, s)
    ELSE IF ~io THEN Outcome("err", c, s)
    ELSE Outcome("ok", core_remove(c, user_name), delete(s, user_name))

drop_user(c, s, user_name, io) ==
    IF user_name \notin DOMAIN c THEN Outcome("err", c, s)
    ELSE IF user_name = DEFAULT_SUPPER_USER THEN Outcome("err", c, s)
    ELSE IF c[user_name].grant_privileges # <<>> THEN Outcome("err", c, s)
    ELSE IF ~io THEN Outcome("err", c, s)
    ELSE Outcome("ok", core_remove(c, user_name), delete(s, user_name))

\* HashMap::<i32, bool>::from_iter: of two pairs with one key the later stays.
RECURSIVE from_iter(_)
from_iter(pos) ==
    IF pos = <<>> THEN <<>>
    ELSE LET m == from_iter(SubSeq(pos, 1, Len(pos) - 1))
             po == pos[Len(pos)]
         IN  [p \in DOMAIN m \cup {po.privilege} |->
                 IF p = po.privilege THEN po.with_grant_option ELSE m[p]]

\* The loop of merge_privilege over the new privileges.
RECURSIVE merge_each(_, _)
merge_each(privilege_map, npos) ==
    IF npos = <<>> THEN privilege_map
    ELSE LET npo == Head(npos)
             m == IF npo.privilege \in DOMAIN privilege_map
                  THEN [privilege_map EXCEPT ![npo.privilege] = @ \/ npo.with_grant_option]
                  ELSE [p \in DOMAIN privilege_map \cup {npo.privilege} |->
                           IF p = npo.privilege THEN npo.with_grant_option
                           ELSE privilege_map[p]]
         IN  merge_each(m, Tail(npos))

\* HashMap::into_iter: the keys in an order the hasher decides.
into_iter(m) ==
    LET n == Cardinality(DOMAIN m)
    IN  {o \in [1..n -> DOMAIN m] : \A i, j \in 1..n : i # j => o[i] # o[j]}

\* merge_privilege: the entries origin_privilege may become.
merge_privilege(origin_privilege, new_privilege) ==
    LET privilege_map ==
            merge_each(from_iter(origin_privilege.privilege_with_opts),
                       new_privilege.privilege_with_opts)
    IN  {[origin_privilege EXCEPT !.privilege_with_opts =
              [i \in 1..Len(o) |-> PrivilegeWithGrantOption(o[i], privilege_map[o[i]])]]
         : o \in into_iter(privilege_map)}

\* The least index of an entry of grant_privileges with the target, 0 if none
\* (iter_mut().find, and the for .. break of revoke_privilege).
find(grant_privileges, target) ==
    LET at == {i \in 1..Len(grant_privileges) : grant_privileges[i].target = target}
    IN  IF at = {} THEN 0 ELSE CHOOSE i \in at : \A j \in at : i <= j

\* The for_each of grant_privilege: the lists user.grant_privileges may become.
RECURSIVE grant_each(_, _)
grant_each(grant_privileges, new_grant_privileges) ==
    IF new_grant_privileges = <<>> THEN {grant_privileges}
    ELSE LET new_grant_privilege == Head(new_grant_privileges)
             i == find(grant_privileges, new_grant_privilege.target)
             merged ==
                 IF i # 0
                 THEN {[grant_privileges EXCEPT ![i] = e] :
                          e \in merge_privilege(grant_privileges[i], new_grant_privilege)}
                 ELSE {Append(grant_privileges, new_grant_privilege)}
         IN  UNION {grant_each(g, Tail(new_grant_privileges)) : g \in merged}

\* grant_privilege as it would be if core were written before the store.
grant_privilege_core_first(c, s, user_name, new_grant_privileges, io) ==
    IF user_name \notin DOMAIN c THEN {Outcome("err", c, s)}
    ELSE IF c[user_name].is_supper THEN {Outcome("err", c, s)}
    ELSE {LET user == [c[user_name] EXCEPT !.grant_privileges = g]
          IN  IF ~io THEN Outcome("err", core_insert(c, user), s)
              ELSE Outcome("ok", core_insert(c, user), insert(s, user))
          : g \in grant_each(c[user_name].grant_privileges, new_grant_privileges)}

\* grant_privilege: the outcomes the call may have.
grant_privilege(c, s, user_name, new_grant_privileges, io) ==
    IF user_name \notin DOMAIN c THEN {Outcome("err", c, s)}
    ELSE IF c[user_name].is_supper THEN {Outcome("err", c, s)}
    ELSE IF ~io THEN {Outcome("err", c, s)}
    ELSE {LET user == [c[user_name] EXCEPT !.grant_privileges = g]
          IN  Outcome("ok", core_insert(c, user), insert(s, user))
          : g \in grant_each(c[user_name].grant_privileges, new_grant_privileges)}

\* Some entry of the revoked privileges names po's privilege.
named(revoke_grant_privilege, po) ==
    \E k \in 1..Len(revoke_grant_privilege.privilege_with_opts) :
        revoke_grant_privilege.privilege_with_opts[k].privilege = po.privilege

revoke_privilege_inner(origin_privilege, revoke_grant_privilege, revoke_grant_option) ==
    IF revoke_grant_option
    THEN [origin_privilege EXCEPT !.privilege_with_opts =
             [k \in 1..Len(@) |->
                 IF named(revoke_grant_privilege, @[k])
                 THEN [@[k] EXCEPT !.with_grant_option = FALSE] ELSE @[k]]]
    ELSE [origin_privilege EXCEPT !.privilege_with_opts =
             SelectSeq(@, LAMBDA po : ~named(revoke_grant_privilege, po))]

\* The for_each of revoke_privilege: user.grant_privileges and empty_privilege
\* after it.
RECURSIVE revoke_each(_, _, _, _)
revoke_each(grant_privileges, revoke_grant_privileges, revoke_grant_option, empty_privilege) ==
    IF revoke_grant_privileges = <<>>
    THEN [grant_privileges |-> grant_privileges, empty_privilege |-> empty_privilege]
    ELSE LET revoke_grant_privilege == Head(revoke_grant_privileges)
             i == find(grant_privileges, revoke_grant_privilege.target)
         IN  IF i = 0
             THEN revoke_each(grant_privileges, Tail(revoke_grant_privileges),
                              revoke_grant_option, empty_privilege)
             ELSE LET privilege == revoke_privilege_inner(grant_privileges[i],
                                       revoke_grant_privilege, revoke_grant_option)
                  IN  revoke_each([grant_privileges EXCEPT ![i] = privilege],
                                  Tail(revoke_grant_privileges), revoke_grant_option,
                                  empty_privilege \/ privilege.privilege_with_opts = <<>>)

revoke_privilege(c, s, user_name, revoke_grant_privileges, revoke_grant_option, io) ==
    IF user_name \notin DOMAIN c THEN Outcome("err", c, s)
    ELSE IF c[user_name].is_supper THEN Outcome("err", c, s)
    ELSE LET r == revoke_each(c[user_name].grant_privileges, revoke_grant_privileges,
                              revoke_grant_option, FALSE)
             kept == IF r.empty_privilege
                     THEN SelectSeq(r.grant_privileges,
                                    LAMBDA privilege : privilege.privilege_with_opts # <<>>)
                     ELSE r.grant_privileges
             user == [c[user_name] EXCEPT !.grant_privileges = kept]
         IN  IF ~io THEN Outcome("err", c, s)
             ELSE Outcome("ok", core_insert(c, user), insert(s, user))

\* The user without the entries of the target (the retain of release_privileges).
released(user, target) ==
    [user EXCEPT !.grant_privileges = SelectSeq(@, LAMBDA p : p.target # target)]

\* The users release_privileges pushes to users_need_update.
users_need_update(c, target) ==
    {n \in DOMAIN c :
        Len(released(c[n], target).grant_privileges) # Len(c[n].grant_privileges)}

\* Transaction of upserts applied by MetaStore::txn, when it succeeds.
txn(s, users) ==
    [n \in DOMAIN s \cup {u.name : u \in users} |->
        IF \E u \in users : u.name = n THEN CHOOSE u \in users : u.name = n ELSE s[n]]

\* release_privileges as it would be if each user were put into core as soon
\* as it is found, before the transaction is committed.
release_privileges_eager(c, s, target, io) ==
    LET need == users_need_update(c, target)
        updated == [n \in DOMAIN c |-> IF n \in need THEN released(c[n], target) ELSE c[n]]
    IN  IF ~io THEN Outcome("err", updated, s)
        ELSE Outcome("ok", updated, txn(s, {released(c[n], target) : n \in need}))

\* release_privileges; io: upsert_in_transaction and txn succeed.
release_privileges(c, s, target, io) ==
    LET need == users_need_update(c, target)
    IN  IF ~io THEN Outcome("err", c, s)
        ELSE Outcome("ok",
                     [n \in DOMAIN c |-> IF n \in need THEN released(c[n], target) ELSE c[n]],
                     txn(s, {released(c[n], target) : n \in need}))

\* ----------------------------------------------------- UserManager inputs

UserNames == {DEFAULT_SUPPER_USER, "alice", "bob"}

Targets == {"t1", "t2"}

make_privilege(target, privileges, with_grant_option) ==
    GrantPrivilege(target,
        [k \in 1..Len(privileges) |-> PrivilegeWithGrantOption(privileges[k], with_grant_option)])

\* The users the meta store holds when the manager is constructed: none (a
\* new cluster), or those of an earlier run.
InitialStores ==
    {<<>>,
     insert(<<>>, default_user),
     insert(insert(<<>>, default_user), make_test_user("bob"))}

\* The users callers create.
NewUsers == {make_test_user(n) : n \in UserNames}

\* The new_grant_privileges callers pass: those of test_user_manager, a list
\* naming one privilege twice, and two entries in one call, with privileges
\* and without.
GrantArgs ==
    {<<make_privilege("t1", <<"Select", "Insert">>, FALSE)>>,
     <<make_privilege("t1", <<"Select", "Update", "Delete">>, TRUE)>>,
     <<GrantPrivilege("t1", <<PrivilegeWithGrantOption("Select", TRUE),
                              PrivilegeWithGrantOption("Select", FALSE)>>)>>,
     <<make_privilege("t2", <<>>, FALSE), make_privilege("t1", <<>>, FALSE)>>,
     <<make_privilege("t2", <<"Insert">>, TRUE), make_privilege("t1", <<"Insert">>, FALSE)>>}

\* The revoke_grant_privileges callers pass.
RevokeArgs ==
    {<<make_privilege("t1", <<"Select", "Insert", "Delete", "Update">>, FALSE)>>,
     <<make_privilege("t1", <<"Select">>, FALSE)>>,
     <<make_privilege("t2", <<"Insert">>, FALSE), make_privilege("t1", <<"Insert">>, FALSE)>>}

\* What the callers pass for a user other than the test's.
OtherGrantArgs ==
    {<<make_privilege("t2", <<"Insert">>, TRUE), make_privilege("t1", <<"Insert">>, FALSE)>>}

OtherRevokeArgs == {<<make_privilege("t1", <<"Select">>, FALSE)>>}

\* The calls of grant_privilege: <<user_name, new_grant_privileges>>.
GrantCalls ==
    ({"alice"} \X GrantArgs) \cup ((UserNames \ {"alice"}) \X OtherGrantArgs)

\* The calls of revoke_privilege:
\* <<user_name, revoke_grant_privileges, revoke_grant_option>>.
RevokeCalls ==
    ({"alice"} \X RevokeArgs \X BOOLEAN)
        \cup ((UserNames \ {"alice"}) \X OtherRevokeArgs \X BOOLEAN)

\* ---------------------------------------------------- UserManager actions

Returned(op, kind) == [op |-> op, kind |-> kind]

\* The manager as UserManager::new returns it; no call has returned.
UserIdle ==
    /\ core = new_core
    /\ store = new_store
    /\ ret = Returned("new", "ok")
    /\ live = {}
    /\ granted = 0

\* The manager as UserManager::new returns it on one of the stores.
InitUser ==
    /\ \E s0 \in InitialStores : \E io \in BOOLEAN :
           LET r == new(s0, io)
           IN  /\ r.kind = "ok"
               /\ core = r.core
               /\ store = r.store
               /\ live = DOMAIN r.core \ {DEFAULT_SUPPER_USER}
    /\ ret = Returned("new", "ok")
    /\ granted = 0
    /\ CodecIdle
    /\ LenIdle

CreateUser(user) ==
    /\ \E io \in BOOLEAN :
           LET r == create_user(core, store, user, io)
           IN  /\ core' = r.core
               /\ store' = r.store
               /\ ret' = Returned("create_user", r.kind)
               /\ live' = IF r.kind = "ok" THEN live \cup {user.name} ELSE live
    /\ UNCHANGED <<granted, codecVars, lenVars>>

DropUser(user_name) ==
    /\ \E io \in BOOLEAN :
           LET r == drop_user(core, store, user_name, io)
           IN  /\ core' = r.core
               /\ store' = r.store
               /\ ret' = Returned("drop_user", r.kind)
               /\ live' = IF r.kind = "ok" THEN live \ {user_name} ELSE live
    /\ UNCHANGED <<granted, codecVars, lenVars>>

GrantPrivilegeCall(user_name, new_grant_privileges) ==
    /\ granted < MaxGrants
    /\ \E io \in BOOLEAN :
           \E r \in grant_privilege(core, store, user_name, new_grant_privileges, io) :
               /\ core' = r.core
               /\ store' = r.store
               /\ ret' = Returned("grant_privilege", r.kind)
               /\ granted' = IF r.kind = "ok" THEN granted + 1 ELSE granted
    /\ UNCHANGED <<live, codecVars, lenVars>>

RevokePrivilege(user_name, revoke_grant_privileges, revoke_grant_option) ==
    /\ \E io \in BOOLEAN :
           LET r == revoke_privilege(core, store, user_name, revoke_grant_privileges,
                                     revoke_grant_option, io)
           IN  /\ core' = r.core
               /\ store' = r.store
               /\ ret' = Returned("revoke_privilege", r.kind)
    /\ UNCHANGED <<live, granted, codecVars, lenVars>>

ReleasePrivileges(target) ==
    /\ \E io \in BOOLEAN :
           LET r == release_privileges(core, store, target, io)
           IN  /\ core' = r.core
               /\ store' = r.store
               /\ ret' = Returned("release_privileges", r.kind)
    /\ UNCHANGED <<live, granted, codecVars, lenVars>>

NextUser ==
    \/ \E user \in NewUsers : CreateUser(user)
    \/ \E user_name \in UserNames : DropUser(user_name)
    \/ \E call \in GrantCalls : GrantPrivilegeCall(call[1], call[2])
    \/ \E call \in RevokeCalls : RevokePrivilege(call[1], call[2], call[3])
    \/ \E target \in Targets : ReleasePrivileges(target)

SpecUser == InitUser /\ [][NextUser]_vars

\* ------------------------------------------------------------------ actions

Init ==
    /\ cell \in Datums
    /\ ty \in DataTypes
    /\ data = <<>>
    /\ enc = NoCall
    /\ dec = NoCall
    /\ pc = "start"
    /\ extra = <<>>
    /\ cut = 0
    /\ flip = 0
    /\ LenIdle
    /\ UserIdle

\* The caller encodes cell; the bytes become the cursor to decode.
Serialize ==
    /\ pc = "start"
    /\ enc' = serialize_cell(cell)
    /\ data' = IF enc'.kind = "ok" THEN enc'.val ELSE <<>>
    /\ pc' = IF enc'.kind = "ok" THEN "encoded" ELSE "panicked"
    /\ UNCHANGED <<cell, ty, dec, extra, cut, flip>>
    /\ UNCHANGED <<lenVars, userVars>>

\* One more byte follows the encoding in the cursor.
PutExtra ==
    /\ pc = "encoded"
    /\ cut = 0
    /\ flip = 0
    /\ Len(extra) < MaxExtra
    /\ \E b \in EditBytes :
          /\ extra' = Append(extra, b)
          /\ data' = Append(data, b)
    /\ UNCHANGED <<cell, ty, enc, dec, pc, cut, flip>>
    /\ UNCHANGED <<lenVars, userVars>>

\* The cursor loses its last byte (a truncated input).
Truncate ==
    /\ pc = "encoded"
    /\ extra = <<>>
    /\ flip = 0
    /\ Len(data) > 0
    /\ cut' = cut + 1
    /\ data' = Take(data, Len(data) - 1)
    /\ UNCHANGED <<cell, ty, enc, dec, pc, extra, flip>>
    /\ UNCHANGED <<lenVars, userVars>>

\* One byte of the cursor is overwritten (a corrupted input).
Corrupt ==
    /\ pc = "encoded"
    /\ extra = <<>>
    /\ cut = 0
    /\ flip = 0
    /\ \E i \in 1..Len(data), b \in EditBytes :
          /\ data[i] # b
          /\ flip' = i
          /\ data' = [data EXCEPT ![i] = b]
    /\ UNCHANGED <<cell, ty, enc, dec, pc, extra, cut>>
    /\ UNCHANGED <<lenVars, userVars>>

\* The caller decodes the cursor with ty.
Deserialize ==
    /\ pc = "encoded"
    /\ dec' = deserialize_cell(data, ty)
    /\ pc' = "done"
    /\ UNCHANGED <<cell, ty, data, enc, extra, cut, flip>>
    /\ UNCHANGED <<lenVars, userVars>>

Next == Serialize \/ PutExtra \/ Truncate \/ Corrupt \/ Deserialize

Spec == Init /\ [][Next]_vars

\* ------------------------------------- the length prefix of long payloads
\* A payload of 2^32 bytes or more cannot be held as a TLA+ sequence; what
\* serialize_str and the Struct arm of serialize_value write for it is
\* followed through its length alone.

\* n + k for a usize n and a small k (Vec::len after put_u32_le, put_slice).
UsizeAdd(n, k) ==
    LET s1 == n[1] + k
        s2 == n[2] + s1 \div 65536
        s3 == n[3] + s2 \div 65536
        s4 == n[4] + s3 \div 65536
    IN  <<s1 % 65536, s2 % 65536, s3 % 65536, s4 % 65536>>

\* The lengths a payload is given: 0, 2, 2^16 - 1, ..., 2^32 - 1, 2^32,
\* 2^32 + 2, ..., up to 3 * 2^32 - 1.
PayloadLengths == {<<l0, l1, l2, 0>> : l0 \in {0, 1, 2, 65535}, l1 \in {0, 1, 65535}, l2 \in {0, 1, 2}}

InitLen ==
    /\ payload_len \in PayloadLengths
    /\ payload_of \in {"Utf8", "Struct"}
    /\ written = [prefix |-> <<>>, len |-> Usize(0)]
    /\ CodecIdle
    /\ UserIdle

\* serialize_str: buf.put_u32_le(bytes.len() as u32); buf.put_slice(bytes).
SerializeStrLen ==
    /\ payload_of = "Utf8"
    /\ written.prefix = <<>>
    /\ written' = [prefix |-> put_u32_le(len_as_u32(payload_len)),
                   len |-> UsizeAdd(payload_len, 4)]
    /\ UNCHANGED <<payload_len, payload_of, codecVars, userVars>>

\* The Struct arm: buf.put_u32_le(bytes.len() as u32); buf.put_slice(..).
SerializeStructLen ==
    /\ payload_of = "Struct"
    /\ written.prefix = <<>>
    /\ written' = [prefix |-> put_u32_le(len_as_u32(payload_len)),
                   len |-> UsizeAdd(payload_len, 4)]
    /\ UNCHANGED <<payload_len, payload_of, codecVars, userVars>>

NextLen == SerializeStrLen \/ SerializeStructLen

SpecLen == InitLen /\ [][NextLen]_vars

\* ------------------------------------------------- vocabulary of the claims

\* The cursor is exactly the encoding of cell.
Unedited == cut = 0 /\ flip = 0 /\ extra = <<>>

\* The DataType variant that decodes the scalar variant.
TypeTagOf(tag) ==
    CASE tag = "Utf8" -> "Varchar"
      [] tag = "Bool" -> "Boolean"
      [] tag = "NaiveDate" -> "Date"
      [] tag = "NaiveTime" -> "Time"
      [] tag = "NaiveDateTime" -> "Timestamp"
      [] OTHER -> tag

\* Datum x is a value of DataType t (None is a value of every type).
RECURSIVE Matches(_, _)
Matches(x, t) ==
    \/ x = None
    \/ /\ Tag(x) # "Struct"
       /\ Tag(x) # "List"
       /\ t.tag = TypeTagOf(Tag(x))
    \/ /\ Tag(x) = "Struct"
       /\ t.tag = "Struct"
       /\ Len(Val(x)) = Len(t.fields)
       /\ \A i \in 1..Len(t.fields) : Matches(Val(x)[i], t.fields[i])

\* Some field of x, at any depth, is absent.
RECURSIVE HasAbsentField(_)
HasAbsentField(x) ==
    /\ x # None
    /\ Tag(x) = "Struct"
    /\ \E i \in 1..Len(Val(x)) : Val(x)[i] = None \/ HasAbsentField(Val(x)[i])

FixedWidthTags ==
    {"Int16", "Int32", "Int64", "Float32", "Float64", "Decimal", "Interval", "Date",
     "Time", "Timestamp", "Timestampz"}

\* The encoded size of a type of fixed width, in bytes.
EncodedSize(tag) ==
    CASE tag = "Int16" -> 2
      [] tag \in {"Int32", "Float32", "Date"} -> 4
      [] tag \in {"Int64", "Float64", "Time", "Timestampz"} -> 8
      [] tag = "Timestamp" -> 12
      [] tag \in {"Decimal", "Interval"} -> 16
      [] tag = "Boolean" -> 1

\* The length prefix of the cursor is complete and the bytes it declares
\* are all there.
PrefixComplete(d) == Len(d) >= 4 /\ U32Le(get_u32_le(d).val, Len(d) - 4)

\* The embedded message of a complete struct cursor.
EmbeddedMessage(d) == Message_decode(Take(Drop(d, 4), U32ToNat(get_u32_le(d).val)))

\* ---------------------------------------------------------------- claims

\* C1 (as claimed): a present value of a supported type, encoded and then
\* decoded with its type, comes back equal, with nothing left in the cursor.
C1_RoundTrip ==
    (pc = "done" /\ Unedited /\ cell # None /\ Matches(cell, ty))
        => (dec.kind = "ok" /\ dec.val = cell /\ dec.rest = <<>>)

\* C2: serialize_cell(None) is the empty buffer, and deserialize_cell of an
\* empty cursor is Ok(None) for every DataType, with nothing consumed.
C2_NullIdentity ==
    /\ (pc # "start" /\ cell = None) => (enc.kind = "ok" /\ enc.val = <<>>)
    /\ (pc = "done" /\ data = <<>>)
            => (dec.kind = "ok" /\ dec.val = None /\ dec.rest = data)

C2_Witness ==
    /\ pc = "done"
    /\ cell = None
    /\ data = <<>>
    /\ ty.tag = "Struct"
    /\ dec.kind = "ok"

\* C3 (as claimed): a non-empty cursor shorter than the encoded size of a
\* fixed-width type makes deserialize_cell return an error.
C3_TruncationIsError ==
    (pc = "done" /\ ty.tag \in FixedWidthTags /\ Len(data) > 0
        /\ Len(data) < EncodedSize(ty.tag))
        => dec.kind = "err"

\* C4 (as claimed): decoding Varchar or Struct from a non-empty cursor whose
\* length prefix is incomplete, or declares more bytes than follow it, returns
\* an error.
C4_PrefixTruncationIsError ==
    (pc = "done" /\ ty.tag \in {"Varchar", "Struct"} /\ Len(data) > 0
        /\ ~PrefixComplete(data))
        => dec.kind = "err"

\* C5 (as claimed): decoding a struct whose embedded message holds M field
\* sub-blobs with a schema of N # M child types returns an error.
C5_ArityMismatchIsError ==
    (pc = "done" /\ ty.tag = "Struct" /\ PrefixComplete(data)
        /\ EmbeddedMessage(data).kind = "ok"
        /\ Len(EmbeddedMessage(data).val) # Len(ty.fields))
        => dec.kind = "err"

\* C6 (as claimed): decoding a struct with an empty field sub-blob yields
\* None for that field, whatever its declared type.
C6_EmptySubBlobIsNone ==
    (pc = "done" /\ ty.tag = "Struct" /\ PrefixComplete(data)
        /\ EmbeddedMessage(data).kind = "ok"
        /\ Len(EmbeddedMessage(data).val) = Len(ty.fields))
        => \A i \in 1..Len(ty.fields) :
              EmbeddedMessage(data).val[i] = <<>>
                  => (dec.kind = "ok" /\ Val(dec.val)[i] = None)

\* What does hold of the round trip: every value without an absent field comes
\* back equal, with nothing left in the cursor.
RoundTripOfPresentFields ==
    (pc = "done" /\ Unedited /\ cell # None /\ Matches(cell, ty)
        /\ ~HasAbsentField(cell))
        => (dec.kind = "ok" /\ dec.val = cell /\ dec.rest = <<>>)

\* C7: a Boolean decoded from byte b is true iff b = 1 and false iff b = 0;
\* any other b is the InvalidBoolEncoding error carrying b, never a boolean.
C7_BooleanDomain ==
    (pc = "done" /\ ty.tag = "Boolean" /\ Len(data) >= 1)
        => LET b == data[1]
           IN  /\ b = 1 => (dec.kind = "ok" /\ dec.val = Scalar("Bool", TRUE))
               /\ b = 0 => (dec.kind = "ok" /\ dec.val = Scalar("Bool", FALSE))
               /\ b \notin {0, 1}
                    => (dec.kind = "err" /\ dec.val = <<"InvalidBoolEncoding", b>>)

C7_Witness ==
    /\ pc = "done"
    /\ ty.tag = "Boolean"
    /\ Len(data) >= 1
    /\ data[1] = 2
    /\ dec.kind = "err"

\* C8: every present scalar of a supported type encodes to at least one byte,
\* so decoding that output, with any type, never returns None.
C8_PresenceIsNotNull ==
    /\ (pc \in {"encoded", "done"} /\ cell # None)
            => (enc.kind = "ok" /\ Len(enc.val) >= 1)
    /\ (pc = "done" /\ Unedited /\ cell # None)
            => ~(dec.kind = "ok" /\ dec.val = None)

C8_Witness ==
    /\ pc = "done"
    /\ Unedited
    /\ cell \in {Scalar("Struct", <<>>), Scalar("Utf8", <<>>)}
    /\ Matches(cell, ty)
    /\ dec.kind = "ok"
    /\ dec.val = cell

\* C9: a successful decode of the encoding of a value of type T followed by
\* k extra bytes advances the cursor by the encoded size of the value (the
\* fixed size of T, or 4 + N for Varchar and Struct) and leaves exactly the
\* k extra bytes.
C9_ExactAdvance ==
    (pc = "done" /\ cut = 0 /\ flip = 0 /\ cell # None /\ Matches(cell, ty)
        /\ dec.kind = "ok")
        => /\ dec.rest = extra
           /\ Len(data) - Len(dec.rest) = Len(enc.val)
           /\ ty.tag \in FixedWidthTags \cup {"Boolean"}
                => Len(data) - Len(dec.rest) = EncodedSize(ty.tag)
           /\ ty.tag = "Varchar" => Len(data) - Len(dec.rest) = 4 + Len(Val(cell))
           /\ ty.tag = "Struct"
                => Len(data) - Len(dec.rest) = 4 + Len(to_protobuf_owned(Val(cell)).val)

C9_Witness ==
    /\ pc = "done"
    /\ cell # None
    /\ Matches(cell, ty)
    /\ ty.tag \in {"Struct", "Varchar", "Timestamp"}
    /\ Len(extra) = 2
    /\ dec.kind = "ok"
    /\ dec.rest = extra

\* C10: a signed w-bit integer encodes to w/8 bytes, byte i being
\* ((v mod 2^w) div 256^i) mod 256 (Int32 42 is 2A 00 00 00).  For Int64 the
\* bytes are read back pairwise into the 16-bit limbs of v mod 2^64.
C10_IntegerLayout ==
    /\ (pc # "start" /\ Tag(cell) = "Int16")
            => /\ enc.kind = "ok"
               /\ Len(enc.val) = 2
               /\ \A i \in 0..1 : enc.val[i + 1] = ((Val(cell) % 65536) \div 256^i) % 256
    /\ (pc # "start" /\ Tag(cell) = "Int32")
            => /\ enc.kind = "ok"
               /\ Len(enc.val) = 4
               /\ \A i \in 0..3 : enc.val[i + 1] = (Val(cell) \div 256^i) % 256
    /\ (pc # "start" /\ cell = Scalar("Int32", 42)) => enc.val = <<42, 0, 0, 0>>
    /\ (pc # "start" /\ Tag(cell) = "Int64")
            => /\ enc.kind = "ok"
               /\ Len(enc.val) = 8
               /\ \A i \in 1..8 : enc.val[i] \in 0..255
               /\ \A j \in 0..3 :
                     enc.val[2 * j + 1] + 256 * enc.val[2 * j + 2] = Val(cell)[j + 1] % 65536

C10_Witness ==
    /\ pc = "encoded"
    /\ cell \in {Scalar("Int64", MinI64), Scalar("Int32", -2147483647 - 1),
                 Scalar("Int16", -32768), Scalar("Int64", MaxI64)}
    /\ enc.kind = "ok"
    /\ enc.val[Len(enc.val)] \in {127, 128}

\* C11 (as claimed): the encoding of a text value or struct whose payload is
\* N bytes is 4 + N bytes long and starts with the little-endian bytes of N
\* itself, for every N.
C11_PrefixIsLength ==
    written.prefix # <<>>
        => /\ written.len = UsizeAdd(payload_len, 4)
           /\ Len(written.prefix) = 4
           /\ get_u32_le(written.prefix).val \o <<0, 0>> = payload_len

\* What does hold of the prefix: it is N mod 2^32, which is N below 2^32.
PrefixIsLengthMod32 ==
    written.prefix # <<>>
        => /\ get_u32_le(written.prefix).val = <<payload_len[1], payload_len[2]>>
           /\ written.len = UsizeAdd(payload_len, 4)

\* The scalar variants serialize_value has an arm for, and the DataType
\* variants deserialize_value has an arm for.
EncodableTags ==
    {"Int16", "Int32", "Int64", "Float32", "Float64", "Utf8", "Bool", "Decimal",
     "Interval", "NaiveDate", "NaiveDateTime", "NaiveTime", "Struct"}

DecodableTags == FixedWidthTags \cup {"Varchar", "Boolean", "Struct"}

\* C12 (as claimed): serialize_cell of a scalar with no encode routine, and
\* deserialize_cell of a non-empty cursor with a type with no decode routine,
\* return an error value; the process is not terminated.
C12_UnsupportedIsError ==
    /\ (enc # NoCall /\ cell # None /\ Tag(cell) \notin EncodableTags)
           => enc.kind = "err"
    /\ (pc = "done" /\ data # <<>> /\ ty.tag \notin DecodableTags)
           => dec.kind = "err"

\* What the code does for them: both calls panic.
UnsupportedPanics ==
    /\ (enc # NoCall /\ cell # None /\ Tag(cell) \notin EncodableTags)
           => enc.kind = "panic"
    /\ (pc = "done" /\ data # <<>> /\ ty.tag \notin DecodableTags)
           => dec.kind = "panic"

\* C13 (as claimed): every call of deserialize_cell returns a complete value
\* or an error, and a struct is returned only when every field decoded: the
\* struct returned has one field per field type, each the decode of its own
\* sub-blob.
C13_AllOrNothing ==
    pc = "done"
        => /\ dec.kind \in {"ok", "err"}
           /\ (dec.kind = "ok" /\ dec.val # None /\ ty.tag = "Struct")
                  => /\ Len(Val(dec.val)) = Len(ty.fields)
                     /\ PrefixComplete(data)
                     /\ EmbeddedMessage(data).kind = "ok"
                     /\ Len(EmbeddedMessage(data).val) = Len(ty.fields)
                     /\ \A i \in 1..Len(ty.fields) :
                            LET f == deserialize_value(ty.fields[i], EmbeddedMessage(data).val[i])
                            IN  f.kind = "ok" /\ f.val = Val(dec.val)[i]

\* What does hold of a struct decode: no struct is returned unless every field
\* decoded, and when the first field to fail fails with an error the call
\* returns that error.
NoPartialStruct ==
    (pc = "done" /\ ty.tag = "Struct" /\ data # <<>> /\ PrefixComplete(data)
        /\ EmbeddedMessage(data).kind = "ok"
        /\ Len(EmbeddedMessage(data).val) = Len(ty.fields))
        => LET field(i) == deserialize_value(ty.fields[i], EmbeddedMessage(data).val[i])
               failing == {i \in 1..Len(ty.fields) : field(i).kind # "ok"}
           IN  IF failing = {}
               THEN dec.kind = "ok" /\ Len(Val(dec.val)) = Len(ty.fields)
               ELSE LET first == CHOOSE i \in failing : \A j \in failing : i <= j
                    IN  dec.kind = field(first).kind /\ dec.val = field(first).val

\* The code point and the length of the UTF-8 sequence at the head of b, as
\* the Unicode standard's table 3-6 reads it; n = 0 when the head is not the
\* start of a sequence or the sequence is cut short.
Utf8Head(b) ==
    LET c(i) == b[i] - 128
        conts(n) == Len(b) >= n /\ \A i \in 2..n : b[i] >= 128 /\ b[i] < 192
    IN  IF b[1] < 128 THEN [n |-> 1, cp |-> b[1]]
        ELSE IF b[1] >= 192 /\ b[1] < 224 /\ conts(2)
             THEN [n |-> 2, cp |-> (b[1] - 192) * 64 + c(2)]
        ELSE IF b[1] >= 224 /\ b[1] < 240 /\ conts(3)
             THEN [n |-> 3, cp |-> (b[1] - 224) * 4096 + c(2) * 64 + c(3)]
        ELSE IF b[1] >= 240 /\ b[1] < 248 /\ conts(4)
             THEN [n |-> 4, cp |-> (b[1] - 240) * 262144 + c(2) * 4096 + c(3) * 64 + c(4)]
        ELSE [n |-> 0, cp |-> 0]

\* The least code point a sequence of n bytes may encode (shortest form).
LeastOfLength(n) == CASE n = 1 -> 0 [] n = 2 -> 128 [] n = 3 -> 2048 [] n = 4 -> 65536

\* b is a sequence of Unicode scalar values, each in its shortest form.
RECURSIVE WellFormedUtf8(_)
WellFormedUtf8(b) ==
    IF b = <<>> THEN TRUE
    ELSE LET h == Utf8Head(b)
         IN  /\ h.n > 0
             /\ h.cp >= LeastOfLength(h.n)
             /\ h.cp <= 1114111
             /\ ~(h.cp >= 55296 /\ h.cp <= 57343)
             /\ WellFormedUtf8(Drop(b, h.n))

\* The payload a complete length prefix declares.
Payload(d) == Take(Drop(d, 4), U32ToNat(get_u32_le(d).val))

\* C14: decoding Varchar from a complete length-prefixed payload returns the
\* InvalidUtf8 error when the payload is not valid UTF-8, and otherwise the
\* string of exactly the payload's bytes.
C14_Utf8Validity ==
    (pc = "done" /\ ty.tag = "Varchar" /\ PrefixComplete(data))
        => IF WellFormedUtf8(Payload(data))
           THEN dec.kind = "ok" /\ dec.val = Str(Payload(data))
           ELSE dec.kind = "err" /\ Tag(dec.val) = "InvalidUtf8"

\* A text value with a byte changed to one that breaks its UTF-8 was decoded.
C14_Witness ==
    /\ pc = "done"
    /\ ty.tag = "Varchar"
    /\ cell # None
    /\ Tag(cell) = "Utf8"
    /\ flip > 4
    /\ PrefixComplete(data)
    /\ ~WellFormedUtf8(Payload(data))
    /\ dec.kind = "err"

\* ------------------------------------- vocabulary of the UserManager claims

\* The entries of a grant_privileges list with the target, in their order.
EntriesOf(grant_privileges, target) ==
    SelectSeq(grant_privileges, LAMBDA p : p.target = target)

\* The privileges of a privilege_with_opts list, and those with a grant option.
IdsOf(pos) == {pos[k].privilege : k \in 1..Len(pos)}

WithOptionOf(pos) == {pos[k].privilege : k \in {k \in 1..Len(pos) : pos[k].with_grant_option}}

\* The privileges held on a target, those held with a grant option, and the
\* flags a privilege is held with there.
Ids(grant_privileges, target) ==
    UNION {IdsOf(grant_privileges[i].privilege_with_opts) :
           i \in {i \in 1..Len(grant_privileges) : grant_privileges[i].target = target}}

WithOption(grant_privileges, target) ==
    UNION {WithOptionOf(grant_privileges[i].privilege_with_opts) :
           i \in {i \in 1..Len(grant_privileges) : grant_privileges[i].target = target}}

Flags(grant_privileges, target, privilege) ==
    UNION {{grant_privileges[i].privilege_with_opts[k].with_grant_option :
             k \in {k \in 1..Len(grant_privileges[i].privilege_with_opts) :
                      grant_privileges[i].privilege_with_opts[k].privilege = privilege}} :
           i \in {i \in 1..Len(grant_privileges) : grant_privileges[i].target = target}}

\* The targets a list of entries names.
TargetsOf(grant_privileges) ==
    {grant_privileges[i].target : i \in 1..Len(grant_privileges)}

\* No privilege appears twice in the list.
EachOnce(pos) == \A j, k \in 1..Len(pos) : j # k => pos[j].privilege # pos[k].privilege

\* C15: create_user with a name that exists (the default super user's too)
\* returns an error and leaves core and the store as they were; with a fresh
\* name it returns Ok only having added exactly that user, or an error of the
\* store with core as it was; and list_users is the default super user and
\* one user for each name created and not dropped since.
C15_CreateUser ==
    [][/\ {u.name : u \in list_users(core')} = {DEFAULT_SUPPER_USER} \cup live'
       /\ Cardinality(list_users(core')) = 1 + Cardinality(live')
       /\ \A user \in NewUsers :
              CreateUser(user)
                  => IF user.name \in {u.name : u \in list_users(core)}
                     THEN /\ ret'.kind = "err"
                          /\ core' = core
                          /\ store' = store
                     ELSE \/ /\ ret'.kind = "ok"
                             /\ list_users(core') = list_users(core) \cup {user}
                             /\ core'[user.name] = user
                          \/ /\ ret'.kind = "err"
                             /\ core' = core]_vars

\* create_user was refused for a name that exists: every name does.
C15_Witness ==
    /\ ret = Returned("create_user", "err")
    /\ DOMAIN core = UserNames
    /\ live = UserNames \ {DEFAULT_SUPPER_USER}

\* C16 (as claimed): after a grant_privilege that returns Ok the user holds
\* one entry for each target granted, each privilege once in an entry, and
\* the privileges held on a target are those held before and those granted.
C16_GrantMergesByTarget ==
    [][\A call \in GrantCalls :
           (GrantPrivilegeCall(call[1], call[2]) /\ ret'.kind = "ok")
               => LET before == core[call[1]].grant_privileges
                      after == core'[call[1]].grant_privileges
                  IN  /\ TargetsOf(after) = TargetsOf(before) \cup TargetsOf(call[2])
                      /\ \A t \in Targets : Len(EntriesOf(after, t)) <= 1
                      /\ \A i \in 1..Len(after) : EachOnce(after[i].privilege_with_opts)
                      /\ \A t \in Targets :
                             Ids(after, t) = Ids(before, t) \cup Ids(call[2], t)]_vars

\* What does hold of a grant: one entry for each target, holding the
\* privileges held before and those granted.
GrantKeepsOneEntryPerTarget ==
    [][\A call \in GrantCalls :
           (GrantPrivilegeCall(call[1], call[2]) /\ ret'.kind = "ok")
               => LET before == core[call[1]].grant_privileges
                      after == core'[call[1]].grant_privileges
                  IN  /\ TargetsOf(after) = TargetsOf(before) \cup TargetsOf(call[2])
                      /\ \A t \in Targets : Len(EntriesOf(after, t)) <= 1
                      /\ \A t \in Targets :
                             Ids(after, t) = Ids(before, t) \cup Ids(call[2], t)]_vars

\* C17 (as claimed): after a grant_privilege that returns Ok, a privilege
\* granted that the user held on the target has the OR of the old and the new
\* flag, and no privilege held with a grant option is left without it.
C17_GrantOptionMonotone ==
    [][\A call \in GrantCalls :
           (GrantPrivilegeCall(call[1], call[2]) /\ ret'.kind = "ok")
               => LET before == core[call[1]].grant_privileges
                      after == core'[call[1]].grant_privileges
                  IN  \A t \in Targets :
                          /\ WithOption(before, t) \subseteq WithOption(after, t)
                          /\ \A p \in Ids(before, t) \cap Ids(call[2], t) :
                                 Flags(after, t, p) =
                                     {p \in WithOption(before, t) \cup WithOption(call[2], t)}]_vars

\* C18 (as claimed): a revoke_privilege with revoke_grant_option = true that
\* returns Ok changes flags only: on a target it names, the privileges held
\* stay in their places, those named without a grant option and the others
\* with their flag; the entries of the other targets stay as they are.
C18_RevokeOptionOnly ==
    [][\A call \in RevokeCalls :
           (call[3] /\ RevokePrivilege(call[1], call[2], call[3]) /\ ret'.kind = "ok")
               => LET before == core[call[1]].grant_privileges
                      after == core'[call[1]].grant_privileges
                  IN  \A t \in Targets :
                          IF t \in TargetsOf(call[2])
                          THEN /\ Ids(after, t) = Ids(before, t)
                               /\ WithOption(after, t) = WithOption(before, t) \ Ids(call[2], t)
                               /\ \A p \in Ids(before, t) \ Ids(call[2], t) :
                                      Flags(after, t, p) = Flags(before, t, p)
                          ELSE EntriesOf(after, t) = EntriesOf(before, t)]_vars

\* What does hold of it: the privileges held and their flags are as claimed
\* on every target; only entries without privileges may go.
RevokeOptionKeepsPrivileges ==
    [][\A call \in RevokeCalls :
           (call[3] /\ RevokePrivilege(call[1], call[2], call[3]) /\ ret'.kind = "ok")
               => LET before == core[call[1]].grant_privileges
                      after == core'[call[1]].grant_privileges
                  IN  \A t \in Targets :
                          /\ Ids(after, t) = Ids(before, t)
                          /\ WithOption(after, t) =
                                 IF t \in TargetsOf(call[2])
                                 THEN WithOption(before, t) \ Ids(call[2], t)
                                 ELSE WithOption(before, t)]_vars

\* C19 (as claimed): a revoke_privilege with revoke_grant_option = false that
\* returns Ok removes the named privileges from the entry of each target it
\* names and keeps the others with their flags; and after any revoke_privilege
\* that returns Ok the user has no entry with an empty privilege list.
C19_RevokeRemoves ==
    [][\A call \in RevokeCalls :
           (RevokePrivilege(call[1], call[2], call[3]) /\ ret'.kind = "ok")
               => LET before == core[call[1]].grant_privileges
                      after == core'[call[1]].grant_privileges
                  IN  /\ ~call[3]
                          => \A t \in TargetsOf(call[2]) :
                                 /\ Ids(after, t) = Ids(before, t) \ Ids(call[2], t)
                                 /\ \A p \in Ids(after, t) :
                                        Flags(after, t, p) = Flags(before, t, p)
                      /\ \A i \in 1..Len(after) : after[i].privilege_with_opts # <<>>]_vars

\* What does hold of it: the privileges left and their flags.
RevokeRemovesNamed ==
    [][\A call \in RevokeCalls :
           (~call[3] /\ RevokePrivilege(call[1], call[2], call[3]) /\ ret'.kind = "ok")
               => LET before == core[call[1]].grant_privileges
                      after == core'[call[1]].grant_privileges
                  IN  \A t \in Targets :
                          /\ Ids(after, t) =
                                 IF t \in TargetsOf(call[2])
                                 THEN Ids(before, t) \ Ids(call[2], t) ELSE Ids(before, t)
                          /\ \A p \in Ids(after, t) :
                                 Flags(after, t, p) = Flags(before, t, p)]_vars

C21_CacheStoreAgreement ==
    [][/\ list_users(core) = list_users(store)
       /\ DOMAIN core = DOMAIN store
       /\ list_users(core') = list_users(store')
       /\ DOMAIN core' = DOMAIN store'
       /\ \A n \in DOMAIN core' : core'[n] = store'[n] /\ core'[n].name = n
       /\ ret'.kind = "err" => core' = core]_vars

\* A grant_privilege failed at the store after an earlier one had succeeded:
\* alice's privileges are in core and in the store.
C21_Witness ==
    /\ ret = Returned("grant_privilege", "err")
    /\ granted = 1
    /\ "alice" \in DOMAIN core
    /\ core["alice"].grant_privileges # <<>>
    /\ store["alice"] = core["alice"]

\* C22: core holds the default super user in the state UserManager::new
\* returns and after every call; drop_user of the default super user, of a
\* user that holds grant privileges and of a name core does not hold returns
\* an error and leaves core and the store as they were.
C22_DefaultSuperUserStays ==
    [][/\ DEFAULT_SUPPER_USER \in DOMAIN core
       /\ DEFAULT_SUPPER_USER \in DOMAIN core'
       /\ \A user_name \in UserNames :
              (/\ DropUser(user_name)
               /\ \/ user_name = DEFAULT_SUPPER_USER
                  \/ user_name \notin DOMAIN core
                  \/ core[user_name].grant_privileges # <<>>)
                  => /\ ret'.kind = "err"
                     /\ core' = core
                     /\ store' = store]_vars

\* drop_user was refused when every name is that of the default super user
\* or of a user holding grant privileges.
C22_Witness ==
    /\ ret = Returned("drop_user", "err")
    /\ DOMAIN core = UserNames
    /\ \A n \in UserNames \ {DEFAULT_SUPPER_USER} : core[n].grant_privileges # <<>>

====
